---- MODULE Spec2Model ----
(***************************************************************************)
(* Model of src/libpriv/rpmostree-refts.{h,cxx}: the reference-counted     *)
(* rpmts wrapper, the directory inode resolver, the file ownership index   *)
(* (RpmFileDb) and the package metadata accessor.                          *)
(*                                                                         *)
(* Strings are sequences of one-character strings, so that rfind/substr    *)
(* are computed as the code computes them.  A std::optional<ino_t> is a    *)
(* set with at most one element ({} is std::nullopt).                      *)
(***************************************************************************)
EXTENDS Integers, Sequences, FiniteSets, TLC

VARIABLES
  fs,                  \* filesystem snapshot: path components -> st_ino
  pc,                  \* position of the caller of the index
  use_fs_state,        \* RpmFileDb::use_fs_state
  basename_to_pkginfo, \* RpmFileDb::basename_to_pkginfo
  inode_to_path,       \* RpmFileDb::inode_to_path
  path_to_inode,       \* RpmFileDb::path_to_inode
  pkg_nevra,           \* NEVRA of the header the package iterator is at
  fi,                  \* entry the file iterator is at
  seen,                \* paths the file iterator has yielded for this header
  nheaders, nfiles,    \* how many headers / files were iterated
  resolved,            \* inodes find_inode_for_dirname returned to the build
  owners,              \* <<nevra, basename>> of every manifest entry iterated
  query, result,       \* last packages_for_file argument and return value
  walk_dirname,        \* find_inode_for_dirname: its local dirname
  walk_arg,            \* find_inode_for_dirname: the dirname it was called with
  walk_pc, walk_ret,   \* find_inode_for_dirname: position, returned pair
  records,             \* package_meta: the headers the name iterator holds
  mi,                  \* package_meta: headers not yet iterated
  previous,            \* package_meta: NEVRA of the first header, if any
  retval,              \* package_meta: the PackageMeta being filled
  meta_pc,             \* package_meta: position / outcome
  refcount,            \* RpmOstreeRefTs::refcount
  tmpdir_initialized,  \* RpmOstreeRefTs::tmpdir.initialized
  held,                \* references each holder owns
  unref_pc,            \* each holder's position in rpmostree_refts_unref
  nrefs,               \* references handed out so far
  ts_freed, tmpdir_deleted, rts_freed,  \* calls of rpmtsFree, deletions, g_free
  had_tmpdir           \* whether rpmostree_refts_new was given a tmpdir

idxvars == << fs, pc, use_fs_state, basename_to_pkginfo, inode_to_path,
              path_to_inode, pkg_nevra, fi, seen, nheaders, nfiles, resolved,
              owners, query, result >>

walkvars == << walk_dirname, walk_arg, walk_pc, walk_ret >>

metavars == << records, mi, previous, retval, meta_pc >>

refvars == << refcount, tmpdir_initialized, held, unref_pc, nrefs, ts_freed,
              tmpdir_deleted, rts_freed, had_tmpdir >>

vars == << idxvars, walkvars, metavars, refvars >>

----------------------------------------------------------------------------
(* Bounds *)

MaxHeaders == 2
MaxFiles == 2
MaxPathLen == 5
MaxRecords == 3
NumHolders == 3
MaxRefs == 4

SeqsUpTo(S, n) == UNION {[1..k -> S] : k \in 0..n}

----------------------------------------------------------------------------
(* Strings and the filesystem *)

EmptyStr == << >>
EmptyMap == [x \in {} |-> {}]
Range(s) == {s[i] : i \in 1..Len(s)}

\* std::string_view::rfind: the last position of ch (1-based), 0 for npos
rfind(path, ch) ==
  LET S == {i \in 1..Len(path) : path[i] = ch}
  IN IF S = {} THEN 0 ELSE CHOOSE i \in S : \A j \in S : j <= i

\* The components of a path: empty components (repeated or trailing
\* separators) name nothing.
RECURSIVE PathComponents(_, _)
PathComponents(p, cur) ==
  LET done == IF cur = EmptyStr THEN << >> ELSE << cur >>
  IN IF p = EmptyStr THEN done
     ELSE IF Head(p) = "/" THEN done \o PathComponents(Tail(p), EmptyStr)
     ELSE PathComponents(Tail(p), Append(cur, Head(p)))

\* stat(2) of a directory path: {st_ino} on success, {} on failure.  The
\* empty path fails with ENOENT; a relative path is resolved from the root.
stat(dir) ==
  IF dir = EmptyStr THEN {}
  ELSE LET c == PathComponents(dir, EmptyStr)
       IN IF c \in DOMAIN fs THEN {fs[c]} ELSE {}

RootDir == << >>
DirA == << <<"a">> >>
DirAB == << <<"a">>, <<"b">> >>
DirAC == << <<"a">>, <<"c">> >>

\* The snapshots: /a missing; only /a; /a and /a/b; all three; /a/c an alias
\* (symlink) of /a/b.
FsSnapshots ==
  { (RootDir :> 2),
    (RootDir :> 2) @@ (DirA :> 10),
    (RootDir :> 2) @@ (DirA :> 10) @@ (DirAB :> 11),
    (RootDir :> 2) @@ (DirA :> 10) @@ (DirAB :> 11) @@ (DirAC :> 12),
    (RootDir :> 2) @@ (DirA :> 10) @@ (DirAB :> 11) @@ (DirAC :> 11) }

\* What reading through a string_view whose std::string was destroyed can
\* observe: the old bytes, or other bytes of the same length.
DanglingRead(s) ==
  IF Len(s) = 0 THEN {s} ELSE {s, [i \in 1..Len(s) |-> "?"]}

\* What reading the value of a disengaged std::optional<ino_t> can observe.
UninitInode == {0} \cup {fs[d] : d \in DOMAIN fs}

\* split_filepath with the first separator taken for the last one
split_filepath_first(path) ==
  LET S == {i \in 1..Len(path) : path[i] = "/"}
      first_sep == IF S = {} THEN 0 ELSE CHOOSE i \in S : \A j \in S : i <= j
  IN IF first_sep = 0
       THEN << EmptyStr, path >>
       ELSE << SubSeq(path, 1, first_sep - 1), SubSeq(path, first_sep, Len(path)) >>

split_filepath(path) ==
  LET last_sep == rfind(path, "/")
  IN IF last_sep = 0
       THEN << EmptyStr, path >>
       ELSE << SubSeq(path, 1, last_sep - 1), SubSeq(path, last_sep, Len(path)) >>

\* One pass of the do-while body of find_inode_for_dirname (lines 55-70):
\* done with (inode, dirname), or the parent to retry with.
walk_step(dir, inode_cache) ==
  IF dir \in DOMAIN inode_cache
    THEN [done |-> TRUE, inode |-> {inode_cache[dir]}, dirname |-> dir,
          cache |-> inode_cache]
  ELSE IF stat(dir) # {}
    THEN [done |-> TRUE, inode |-> stat(dir), dirname |-> dir,
          cache |-> inode_cache @@ (dir :> (CHOOSE i \in stat(dir) : TRUE))]
  ELSE [done |-> FALSE, inode |-> {}, dirname |-> split_filepath(dir)[1],
        cache |-> inode_cache]

\* find_inode_for_dirname that also memoizes the ancestor's inode under the
\* path it was asked about
RECURSIVE find_inode_memo_child(_, _)
find_inode_memo_child(dir, inode_cache) ==
  LET s == walk_step(dir, inode_cache)
  IN IF s.done THEN [inode |-> s.inode, dirname |-> s.dirname, cache |-> s.cache]
     ELSE IF s.dirname # EmptyStr
       THEN LET r == find_inode_memo_child(s.dirname, s.cache)
            IN IF r.inode = {} THEN r
               ELSE [r EXCEPT !.cache = (dir :> (CHOOSE i \in r.inode : TRUE)) @@ @]
       ELSE [inode |-> {}, dirname |-> s.dirname, cache |-> s.cache]

\* The whole loop (lines 53-74)
RECURSIVE find_inode_for_dirname(_, _)
find_inode_for_dirname(dir, inode_cache) ==
  LET s == walk_step(dir, inode_cache)
  IN IF s.done THEN [inode |-> s.inode, dirname |-> s.dirname, cache |-> s.cache]
     ELSE IF s.dirname # EmptyStr
       THEN find_inode_for_dirname(s.dirname, s.cache)
       ELSE [inode |-> {}, dirname |-> s.dirname, cache |-> s.cache]

----------------------------------------------------------------------------
(* The package database (librpm) as the build sees it *)

Nevras == {"foo-1.0", "baz-1.0"}

\* rpmfiBN: a file name without separators
Basenames == { <<"f">>, <<"g">> }

\* rpmfiDN: an absolute directory with its trailing separator
Dirnames == { <<"/", "a", "/", "b", "/">>, <<"/", "a", "/", "c", "/">> }

\* rpmfiFState / rpmfiFMode of the entry
FileEntries ==
  {e \in [bn : Basenames, dn : Dirnames, installed : BOOLEAN, isdir : BOOLEAN] :
     e.installed \/ ~e.isdir}

NoEntry == [bn |-> EmptyStr, dn |-> EmptyStr, installed |-> FALSE, isdir |-> FALSE]

QueryPaths ==
  { <<"f">>, <<"h">>,
    <<"/", "a", "/", "b", "/", "f">>,
    <<"/", "a", "/", "c", "/", "g">> }

----------------------------------------------------------------------------
(* RpmTs::build_file_cache_from_rpmdb *)

FilePackageInfo(nevra, dir, dir_inode) ==
  [pkg_nevra |-> nevra, dirname |-> dir, dir_inode |-> dir_inode]

\* emplace_back under the key of an earlier entry when the map has one
emplace_back_stale(map, key, info) ==
  IF DOMAIN map # {}
    THEN LET k == CHOOSE x \in DOMAIN map : TRUE
         IN [map EXCEPT ![k] = Append(@, info)]
    ELSE map @@ (key :> << info >>)

\* basename_to_pkginfo[basename].emplace_back (info)
emplace_back(map, key, info) ==
  IF key \in DOMAIN map
    THEN [map EXCEPT ![key] = Append(@, info)]
    ELSE map @@ (key :> << info >>)

\* inode_to_path[inode].emplace (dirname)
emplace(map, key, dir) ==
  IF key \in DOMAIN map
    THEN [map EXCEPT ![key] = @ \cup {dir}]
    ELSE map @@ (key :> {dir})

\* The snapshot the other specifications run on: /a and /a/b exist
FsDefault == (RootDir :> 2) @@ (DirA :> 10) @@ (DirAB :> 11)

InitIndex ==
  /\ pc = "idle"
  /\ use_fs_state = FALSE
  /\ basename_to_pkginfo = EmptyMap
  /\ inode_to_path = EmptyMap
  /\ pkg_nevra = ""
  /\ fi = NoEntry
  /\ seen = {}
  /\ nheaders = 0
  /\ nfiles = 0
  /\ resolved = {}
  /\ owners = {}
  /\ query = EmptyStr
  /\ result = << >>

\* lines 232-238: a fresh RpmFileDb, the package iterator is opened
BuildBegin(use) ==
  /\ pc = "idle"
  /\ pc' = "building"
  /\ use_fs_state' = use
  /\ UNCHANGED << fs, basename_to_pkginfo, inode_to_path, path_to_inode,
                  pkg_nevra, fi, seen, nheaders, nfiles, resolved, owners,
                  query, result >>
  /\ UNCHANGED << walkvars, metavars, refvars >>

\* lines 241-250: rpmdbNextIterator yields a header, rpmfiNew/rpmfiInit
NextHeader(nevra) ==
  /\ pc = "building"
  /\ nheaders < MaxHeaders
  /\ nheaders' = nheaders + 1
  /\ pkg_nevra' = nevra
  /\ fi' = NoEntry
  /\ seen' = {}
  /\ UNCHANGED << fs, pc, use_fs_state, basename_to_pkginfo, inode_to_path,
                  path_to_inode, nfiles, resolved, owners, query, result >>
  /\ UNCHANGED << walkvars, metavars, refvars >>

\* lines 251-272: rpmfiNext yields an entry of the current header
NextFile(entry) ==
  /\ pc = "building"
  /\ pkg_nevra # ""
  /\ nfiles < MaxFiles
  /\ << entry.bn, entry.dn >> \notin seen
  /\ nfiles' = nfiles + 1
  /\ fi' = entry
  /\ seen' = seen \cup {<< entry.bn, entry.dn >>}
  /\ owners' = owners \cup {<< pkg_nevra, entry.bn >>}
  /\ IF use_fs_state /\ entry.dn # EmptyStr
       THEN LET found == find_inode_for_dirname(entry.dn, path_to_inode)
            IN /\ path_to_inode' = found.cache
               /\ resolved' = resolved \cup found.inode
               /\ \E key \in (IF found.inode # {} THEN found.inode ELSE UninitInode),
                     dir \in DanglingRead(found.dirname) :
                    /\ inode_to_path' = emplace(inode_to_path, key, found.dirname)
                    /\ basename_to_pkginfo' =
                         emplace_back(basename_to_pkginfo, entry.bn,
                                      FilePackageInfo(pkg_nevra, dir, found.inode))
       ELSE /\ basename_to_pkginfo' =
                 emplace_back(basename_to_pkginfo, entry.bn,
                              FilePackageInfo(pkg_nevra, entry.dn, {}))
            /\ UNCHANGED << inode_to_path, path_to_inode, resolved >>
  /\ UNCHANGED << fs, pc, use_fs_state, pkg_nevra, nheaders, query, result >>
  /\ UNCHANGED << walkvars, metavars, refvars >>

\* line 275: both iterators are exhausted, the index is returned
BuildEnd ==
  /\ pc = "building"
  /\ pc' = "built"
  /\ UNCHANGED << fs, use_fs_state, basename_to_pkginfo, inode_to_path,
                  path_to_inode, pkg_nevra, fi, seen, nheaders, nfiles,
                  resolved, owners, query, result >>
  /\ UNCHANGED << walkvars, metavars, refvars >>

\* lines 237-238, 247-248: an iterator cannot be created, the build throws
\* and no index is returned
BuildThrow ==
  /\ pc = "building"
  /\ pc' = "failed"
  /\ basename_to_pkginfo' = EmptyMap
  /\ inode_to_path' = EmptyMap
  /\ path_to_inode' = EmptyMap
  /\ UNCHANGED << fs, use_fs_state, pkg_nevra, fi, seen, nheaders, nfiles,
                  resolved, owners, query, result >>
  /\ UNCHANGED << walkvars, metavars, refvars >>

----------------------------------------------------------------------------
(* RpmFileDb::packages_for_file *)

RECURSIVE SelectPkgs(_, _, _)
SelectPkgs(infos, dir_inode, dir) ==
  IF infos = << >> THEN << >>
  ELSE LET info == Head(infos)
           rest == SelectPkgs(Tail(infos), dir_inode, dir)
       IN IF (dir_inode # {} /\ info.dir_inode = dir_inode)
               \/ info.dirname = dir
            THEN << info.pkg_nevra >> \o rest
            ELSE rest

\* line 124: the key the index is searched with
lookup_key(path) == path

packages_for_file(path) ==
  /\ pc \in {"built", "queried"}
  /\ pc' = "queried"
  /\ query' = path
  /\ LET dir == split_filepath(path)[1]
         key == lookup_key(path)
     IN IF key \in DOMAIN basename_to_pkginfo
          THEN IF use_fs_state
                 THEN LET sel == find_inode_for_dirname(dir, path_to_inode)
                      IN /\ path_to_inode' = sel.cache
                         /\ \E seldir \in DanglingRead(sel.dirname) :
                              result' = SelectPkgs(basename_to_pkginfo[key],
                                                   sel.inode, seldir)
                 ELSE /\ result' = SelectPkgs(basename_to_pkginfo[key], {}, dir)
                      /\ UNCHANGED path_to_inode
          ELSE /\ result' = << >>
               /\ UNCHANGED path_to_inode
  /\ UNCHANGED << fs, use_fs_state, basename_to_pkginfo, inode_to_path,
                  pkg_nevra, fi, seen, nheaders, nfiles, resolved, owners >>
  /\ UNCHANGED << walkvars, metavars, refvars >>

----------------------------------------------------------------------------
(* find_inode_for_dirname, one pass of its loop at a time *)

PathChars == {"/", "a", "b"}
WalkInputs == SeqsUpTo(PathChars, MaxPathLen)

\* Paths an earlier call may have left in the cache
CachePaths == { <<"/", "a">>, <<"/", "a", "/", "b", "/">> }

ConsistentCaches ==
  { [p \in S |-> CHOOSE i \in stat(p) : TRUE] :
      S \in SUBSET {p \in CachePaths : stat(p) # {}} }

WalkIdle ==
  /\ walk_dirname = EmptyStr
  /\ walk_arg = EmptyStr
  /\ walk_pc = "idle"
  /\ walk_ret = << {}, EmptyStr >>

\* line 51: the call
WalkCall(dir) ==
  /\ walk_pc = "idle"
  /\ walk_pc' = "loop"
  /\ walk_arg' = dir
  /\ walk_dirname' = dir
  /\ UNCHANGED << walk_ret, idxvars, metavars, refvars >>

\* lines 53-74: one pass of the do-while, and the return it leads to
WalkIter ==
  /\ walk_pc = "loop"
  /\ LET s == walk_step(walk_dirname, path_to_inode)
     IN /\ path_to_inode' = s.cache
        /\ walk_dirname' = s.dirname
        /\ IF s.done \/ s.dirname = EmptyStr
             THEN /\ walk_pc' = "done"
                  /\ walk_ret' = << s.inode, s.dirname >>
             ELSE /\ walk_pc' = "loop"
                  /\ UNCHANGED walk_ret
  /\ UNCHANGED << walk_arg, fs, pc, use_fs_state, basename_to_pkginfo,
                  inode_to_path, pkg_nevra, fi, seen, nheaders, nfiles,
                  resolved, owners, query, result, metavars, refvars >>

----------------------------------------------------------------------------
(* RpmTs::package_meta *)

MetaHeaders ==
  { [nevra |-> "libgcc-8.5.0-10.el8.x86_64", size |-> 100, buildtime |-> 7,
     src_pkg |-> "gcc-8.5.0-10.el8.src.rpm", changelogs |-> << 5, 3 >>],
    [nevra |-> "libgcc-8.5.0-10.el8.x86_64", size |-> 101, buildtime |-> 8,
     src_pkg |-> "gcc-8.5.0-10.el8.src.rpm", changelogs |-> << 5 >>],
    [nevra |-> "libgcc-8.5.0-11.el8.x86_64", size |-> 102, buildtime |-> 9,
     src_pkg |-> "gcc-8.5.0-11.el8.src.rpm", changelogs |-> << 6, 5, 3 >>] }

\* std::make_unique<PackageMeta> ()
NewPackageMeta ==
  [size |-> 0, buildtime |-> 0, src_pkg |-> "", changelogs |-> << >>]

\* lines 191-209: the fields read from a header; the changelog times are
\* pushed back one by one
ReadMeta(h) ==
  [size |-> h.size, buildtime |-> h.buildtime, src_pkg |-> h.src_pkg,
   changelogs |-> [i \in 1..Len(h.changelogs) |-> h.changelogs[i]]]

\* The loop body with every header's fields stored, not only the first's
meta_next_overwrite(prev, rv, h) ==
  IF prev = {}
    THEN [previous |-> {h.nevra}, retval |-> ReadMeta(h), thrown |-> FALSE]
    ELSE [previous |-> prev, retval |-> ReadMeta(h), thrown |-> prev # {h.nevra}]

\* lines 187-222: the loop body for header h
meta_next(prev, rv, h) ==
  IF prev = {}
    THEN [previous |-> {h.nevra}, retval |-> ReadMeta(h), thrown |-> FALSE]
    ELSE [previous |-> prev, retval |-> rv, thrown |-> prev # {h.nevra}]

MetaIdle ==
  /\ records = << >>
  /\ mi = << >>
  /\ previous = {}
  /\ retval = NewPackageMeta
  /\ meta_pc = "idle"

\* lines 176-181: no header matches the name, rpmtsInitIterator returns NULL
PackageMetaNotFound ==
  /\ meta_pc = "idle"
  /\ records = << >>
  /\ meta_pc' = "not_found"
  /\ UNCHANGED << records, mi, previous, retval, idxvars, walkvars, refvars >>

\* lines 176-184: the iterator is created
PackageMetaBegin ==
  /\ meta_pc = "idle"
  /\ meta_pc' = "iter"
  /\ mi' = records
  /\ previous' = {}
  /\ retval' = NewPackageMeta
  /\ UNCHANGED << records, idxvars, walkvars, refvars >>

\* lines 185-223: rpmdbNextIterator yields a header
PackageMetaNext ==
  /\ meta_pc = "iter"
  /\ mi # << >>
  /\ LET r == meta_next(previous, retval, Head(mi))
     IN /\ previous' = r.previous
        /\ retval' = r.retval
        /\ meta_pc' = IF r.thrown THEN "multiple" ELSE "iter"
  /\ mi' = Tail(mi)
  /\ UNCHANGED << records, idxvars, walkvars, refvars >>

\* lines 224-226: the iterator is exhausted
PackageMetaReturn ==
  /\ meta_pc = "iter"
  /\ mi = << >>
  /\ meta_pc' = IF previous = {} THEN "aborted" ELSE "returned"
  /\ UNCHANGED << records, mi, previous, retval, idxvars, walkvars, refvars >>

----------------------------------------------------------------------------
(* rpmostree_refts_new / rpmostree_refts_ref / rpmostree_refts_unref *)

Holders == 1..NumHolders

RECURSIVE SumHeld(_, _)
SumHeld(f, S) ==
  IF S = {} THEN 0
  ELSE LET h == CHOOSE x \in S : TRUE IN f[h] + SumHeld(f, S \ {h})

\* the test made on the value read before the decrement
dec_and_test_stale(count) == count = 0

\* g_atomic_int_dec_and_test: TRUE iff the decremented count is zero
dec_and_test(count) == count - 1 = 0

RefsIdle ==
  /\ refcount = 0
  /\ tmpdir_initialized = FALSE
  /\ held = [h \in Holders |-> 0]
  /\ unref_pc = [h \in Holders |-> "idle"]
  /\ nrefs = 0
  /\ ts_freed = 0
  /\ tmpdir_deleted = 0
  /\ rts_freed = 0
  /\ had_tmpdir = FALSE

\* lines 84-96: the state rpmostree_refts_new leaves, holder 1 the creator
InitRefs ==
  /\ refcount = 1
  /\ had_tmpdir \in BOOLEAN
  /\ tmpdir_initialized = had_tmpdir
  /\ held = [h \in Holders |-> IF h = 1 THEN 1 ELSE 0]
  /\ unref_pc = [h \in Holders |-> "idle"]
  /\ nrefs = 1
  /\ ts_freed = 0
  /\ tmpdir_deleted = 0
  /\ rts_freed = 0

\* lines 98-103: holder h takes a reference and hands it to holder to
rpmostree_refts_ref(h, to) ==
  /\ unref_pc[h] = "idle"
  /\ held[h] > 0
  /\ nrefs < MaxRefs
  /\ refcount' = refcount + 1
  /\ held' = [held EXCEPT ![to] = @ + 1]
  /\ nrefs' = nrefs + 1
  /\ UNCHANGED << tmpdir_initialized, unref_pc, ts_freed, tmpdir_deleted,
                  rts_freed, had_tmpdir, idxvars, walkvars, metavars >>

\* lines 108-109: holder h gives up a reference it holds
UnrefDec(h) ==
  /\ unref_pc[h] = "idle"
  /\ held[h] > 0
  /\ held' = [held EXCEPT ![h] = @ - 1]
  /\ refcount' = refcount - 1
  /\ unref_pc' = [unref_pc EXCEPT
                    ![h] = IF dec_and_test(refcount) THEN "rpmtsFree" ELSE "idle"]
  /\ UNCHANGED << tmpdir_initialized, nrefs, ts_freed, tmpdir_deleted,
                  rts_freed, had_tmpdir, idxvars, walkvars, metavars >>

\* line 110
UnrefRpmtsFree(h) ==
  /\ unref_pc[h] = "rpmtsFree"
  /\ ts_freed' = ts_freed + 1
  /\ unref_pc' = [unref_pc EXCEPT ![h] = "tmpdir_delete"]
  /\ UNCHANGED << refcount, tmpdir_initialized, held, nrefs, tmpdir_deleted,
                  rts_freed, had_tmpdir, idxvars, walkvars, metavars >>

\* line 111: glnx_tmpdir_delete removes an initialized tmpdir only
UnrefTmpdirDelete(h) ==
  /\ unref_pc[h] = "tmpdir_delete"
  /\ tmpdir_deleted' = IF tmpdir_initialized THEN tmpdir_deleted + 1
                                              ELSE tmpdir_deleted
  /\ tmpdir_initialized' = FALSE
  /\ unref_pc' = [unref_pc EXCEPT ![h] = "g_free"]
  /\ UNCHANGED << refcount, held, nrefs, ts_freed, rts_freed, had_tmpdir,
                  idxvars, walkvars, metavars >>

\* line 112
UnrefGFree(h) ==
  /\ unref_pc[h] = "g_free"
  /\ rts_freed' = rts_freed + 1
  /\ unref_pc' = [unref_pc EXCEPT ![h] = "idle"]
  /\ UNCHANGED << refcount, tmpdir_initialized, held, nrefs, ts_freed,
                  tmpdir_deleted, had_tmpdir, idxvars, walkvars, metavars >>

----------------------------------------------------------------------------
(* Specifications *)

\* The ownership index: one build, then queries
Init ==
  /\ fs \in FsSnapshots
  /\ InitIndex /\ path_to_inode = EmptyMap /\ WalkIdle /\ MetaIdle /\ RefsIdle

Next ==
  \/ \E use \in BOOLEAN : BuildBegin(use)
  \/ \E nevra \in Nevras : NextHeader(nevra)
  \/ \E entry \in FileEntries : NextFile(entry)
  \/ BuildEnd
  \/ BuildThrow
  \/ \E path \in QueryPaths : packages_for_file(path)

Spec == Init /\ [][Next]_vars

\* The resolver alone, on any dirname and any cache earlier calls can leave
InitResolve ==
  /\ fs \in FsSnapshots
  /\ InitIndex
  /\ path_to_inode \in ConsistentCaches
  /\ WalkIdle /\ MetaIdle /\ RefsIdle

NextResolve ==
  \/ \E dir \in WalkInputs : WalkCall(dir)
  \/ WalkIter

SpecResolve ==
  InitResolve /\ [][NextResolve]_vars /\ WF_vars(WalkIter)

\* package_meta on the headers a name selects
InitMeta ==
  /\ fs = FsDefault
  /\ InitIndex /\ path_to_inode = EmptyMap /\ WalkIdle /\ RefsIdle
  /\ records \in SeqsUpTo(MetaHeaders, MaxRecords)
  /\ mi = << >>
  /\ previous = {}
  /\ retval = NewPackageMeta
  /\ meta_pc = "idle"

NextMeta ==
  \/ PackageMetaNotFound
  \/ PackageMetaBegin
  \/ PackageMetaNext
  \/ PackageMetaReturn

SpecMeta == InitMeta /\ [][NextMeta]_vars

\* The handle's holders, running concurrently
InitRefts ==
  /\ fs = FsDefault
  /\ InitIndex /\ path_to_inode = EmptyMap /\ WalkIdle /\ MetaIdle /\ InitRefs

NextRefts ==
  \/ \E h, to \in Holders : rpmostree_refts_ref(h, to)
  \/ \E h \in Holders : UnrefDec(h)
  \/ \E h \in Holders : UnrefRpmtsFree(h)
  \/ \E h \in Holders : UnrefTmpdirDelete(h)
  \/ \E h \in Holders : UnrefGFree(h)

SpecRefts == InitRefts /\ [][NextRefts]_vars

----------------------------------------------------------------------------
(* Properties *)

\* The directory and the file name of a path as a manifest states them: the
\* path is dn \o bn with no separator in bn.
IsPathOf(path, dn, bn) == path = dn \o bn /\ "/" \notin Range(bn)

PathBasename(path) ==
  LET S == {k \in 1..(Len(path) + 1) : "/" \notin Range(SubSeq(path, k, Len(path)))}
  IN SubSeq(path, CHOOSE k \in S : \A j \in S : k <= j, Len(path))

\* C1: a manifest entry that is not installed, or is a directory, adds no
\* record to the index.
C1_OnlyInstalledFilesIndexed ==
  [][(nfiles' = nfiles + 1 /\ ~(fi'.installed /\ ~fi'.isdir))
       => basename_to_pkginfo' = basename_to_pkginfo]_vars

\* C2: without filesystem state, the query for the path dn/bn returns the
\* packages of exactly the records indexed under bn with directory dn.
C2_StringModeQueryFindsOwners ==
  (pc = "queried" /\ ~use_fs_state) =>
    \A bn \in Basenames, dn \in Dirnames :
      IsPathOf(query, dn, bn) =>
        Range(result) =
          {info.pkg_nevra : info \in
             {i \in (IF bn \in DOMAIN basename_to_pkginfo
                       THEN Range(basename_to_pkginfo[bn]) ELSE {}) :
                i.dirname = dn}}

\* C3: with filesystem state, when the directory of an installed file is
\* missing and an ancestor of it exists, the query for that file's path
\* returns the package that owns it.
C3_MissingDirectoryStillMatches ==
  (/\ pc = "queried" /\ use_fs_state
   /\ fi # NoEntry /\ fi.installed /\ ~fi.isdir
   /\ query = fi.dn \o fi.bn
   /\ stat(fi.dn) = {}
   /\ find_inode_for_dirname(fi.dn, EmptyMap).inode # {})
    => pkg_nevra \in Range(result)

\* C4: under every basename key there is at most one record for each pair
\* of package and dirname.
C4_OneRecordPerPackageAndDirname ==
  \A k \in DOMAIN basename_to_pkginfo :
    \A i, j \in 1..Len(basename_to_pkginfo[k]) :
      (/\ basename_to_pkginfo[k][i].pkg_nevra = basename_to_pkginfo[k][j].pkg_nevra
       /\ basename_to_pkginfo[k][i].dirname = basename_to_pkginfo[k][j].dirname)
        => i = j

\* C5: package_meta on a non-empty sequence of headers throws "Multiple
\* installed" iff some header's NEVRA differs from the first's, and otherwise
\* returns the first header's size, build time, source package and changelog
\* times.
C5_MetaFirstRecordOrMultiple ==
  (meta_pc \in {"returned", "multiple"} /\ records # << >>) =>
    /\ meta_pc = "multiple" <=>
         \E i \in 1..Len(records) : records[i].nevra # records[1].nevra
    /\ meta_pc = "returned" =>
         /\ retval.size = records[1].size
         /\ retval.buildtime = records[1].buildtime
         /\ retval.src_pkg = records[1].src_pkg
         /\ retval.changelogs = records[1].changelogs

\* C5: package_meta has returned on a duplicated NEVRA whose second header
\* carries other data than the first.
C5_Witness ==
  /\ meta_pc = "returned"
  /\ Len(records) >= 2
  /\ records[2] # records[1]

\* C6: every package a query returns owns a manifest entry whose basename is
\* the basename of the queried path; with no such entry the result is empty.
C6_ResultsOwnTheBasename ==
  pc = "queried" =>
    \A i \in 1..Len(result) : << result[i], PathBasename(query) >> \in owners

\* C6: a query has returned a package.
C6_Witness ==
  /\ pc = "queried"
  /\ result # << >>
  /\ \E o \in owners : o[2] # PathBasename(query)

\* The parent of a directory path: what precedes its last separator.
ClaimParent(d) ==
  LET P == {SubSeq(d, 1, k - 1) : k \in {i \in 1..Len(d) : d[i] = "/"}}
  IN IF P = {} THEN EmptyStr
     ELSE CHOOSE q \in P : \A r \in P : Len(r) <= Len(q)

RECURSIVE ClaimChain(_)
ClaimChain(d) ==
  IF d = EmptyStr THEN << >> ELSE << d >> \o ClaimChain(ClaimParent(d))

ExpectedWalk(arg) ==
  LET C == ClaimChain(arg)
      H == {i \in 1..Len(C) : C[i] \in DOMAIN path_to_inode \/ stat(C[i]) # {}}
  IN IF H = {} THEN << {}, EmptyStr >>
     ELSE LET first == CHOOSE i \in H : \A j \in H : i <= j
          IN << stat(C[first]), C[first] >>

\* C7: the resolver returns the first path of the chain dirname, parent, ...
\* that is cached or exists, with that path's inode, or (none, "") when there
\* is none; every retry shortens the path, and the call returns.
C7_ResolverFindsNearestAncestor ==
  /\ [](walk_pc = "done" => walk_ret = ExpectedWalk(walk_arg))
  /\ [][(walk_pc = "loop" /\ walk_pc' = "loop")
          => Len(walk_dirname') < Len(walk_dirname)]_vars
  /\ (walk_pc = "loop" ~> walk_pc = "done")

\* C7: the resolver has walked up from a missing directory to an ancestor.
C7_Witness ==
  /\ walk_pc = "done"
  /\ walk_ret[1] # {}
  /\ Len(walk_ret[2]) + 2 < Len(walk_arg)

ProbeDirs == Dirnames \cup {<< "/", "a" >>, << "/" >>}

\* C8: every cache entry is the inode the filesystem reports for that very
\* path, an entry is never removed or changed, and the resolver answers with
\* the cache as it does without.
C8_CacheIsFaithful ==
  /\ [](/\ \A p \in DOMAIN path_to_inode : stat(p) = {path_to_inode[p]}
        /\ \A d \in ProbeDirs :
             LET with == find_inode_for_dirname(d, path_to_inode)
                 without == find_inode_for_dirname(d, EmptyMap)
             IN with.inode = without.inode /\ with.dirname = without.dirname)
  /\ [][pc' # "failed" =>
          \A p \in DOMAIN path_to_inode :
            p \in DOMAIN path_to_inode' /\ path_to_inode'[p] = path_to_inode[p]]_vars

\* C8: the build filled the cache and a query ran on the index.
C8_Witness ==
  /\ pc = "queried"
  /\ use_fs_state
  /\ query \in DOMAIN basename_to_pkginfo
  /\ Cardinality(DOMAIN path_to_inode) >= 2

\* C9: every key of the inode -> dirnames map is an inode the resolver
\* returned to the build: an entry for which the resolver found nothing adds
\* no key.
C9_InodeMapKeysWereResolved ==
  DOMAIN inode_to_path \subseteq resolved

\* C10: the transaction set is freed, the owned tmpdir deleted and the handle
\* released exactly once, by the one unref that took the count to zero, and
\* not while a reference is outstanding.
C10_FreedExactlyOnce ==
  LET outstanding == SumHeld(held, Holders)
      finalizing == {h \in Holders : unref_pc[h] # "idle"}
  IN /\ ts_freed <= 1 /\ rts_freed <= 1 /\ tmpdir_deleted <= 1
     /\ Cardinality(finalizing) <= 1
     /\ (finalizing # {} \/ ts_freed + tmpdir_deleted + rts_freed > 0)
          => (outstanding = 0 /\ refcount = 0)
     /\ (outstanding = 0 /\ finalizing = {})
          => /\ ts_freed = 1 /\ rts_freed = 1
             /\ tmpdir_deleted = (IF had_tmpdir THEN 1 ELSE 0)

\* C10: several holders shared the handle and the last unref finished.
C10_Witness ==
  /\ nrefs >= 3
  /\ rts_freed = 1
  /\ had_tmpdir /\ tmpdir_deleted = 1
  /\ \A h \in Holders : unref_pc[h] = "idle"

====
